---- MODULE Spec2Model ----
(***************************************************************************)
(* A model of zvfs.py: a single-file virtual filesystem container.  The    *)
(* container file is a 64-byte header, a table of 32 entries of 64 bytes,  *)
(* and a data region that starts at byte 2112.  The header and the entries *)
(* are kept as the records that Header.unpack / FileEntry.unpack return;   *)
(* the data region is kept byte by byte.  PackHeader and PackEntry give    *)
(* the bytes of the fixed regions, so Image is the whole file's bytes.     *)
(***************************************************************************)
EXTENDS Integers, Sequences, FiniteSets, TLC

(***************************************************************************)
(* Program constants (zvfs.py:15-28).                                      *)
(***************************************************************************)
HEADER_SIZE == 64
ENTRY_SIZE == 64
DATA_ALIGNMENT == 64
MAX_FILES == 32
FILE_TABLE_OFFSET == HEADER_SIZE
DATA_START_OFFSET == HEADER_SIZE + MAX_FILES * ENTRY_SIZE

(***************************************************************************)
(* Bounds of the model.                                                    *)
(*   MaxTime:    the largest value int(time.time()) returns.               *)
(***************************************************************************)
MaxTime == 1

(***************************************************************************)
(* Byte strings.                                                           *)
(***************************************************************************)
Zeros(n) == [i \in 1..n |-> 0]

Max(a, b) == IF a >= b THEN a ELSE b

\* a variant that keeps one byte of every code point
Utf8Char_OneByte(cp) == <<cp % 256>>

\* str.encode("utf-8") of one code point
Utf8Char(cp) ==
    IF cp < 128 THEN <<cp>>
    ELSE IF cp < 2048 THEN <<192 + (cp \div 64), 128 + (cp % 64)>>
    ELSE IF cp < 65536
         THEN <<224 + (cp \div 4096), 128 + ((cp \div 64) % 64), 128 + (cp % 64)>>
         ELSE <<240 + (cp \div 262144), 128 + ((cp \div 4096) % 64),
                128 + ((cp \div 64) % 64), 128 + (cp % 64)>>

\* str.encode("utf-8"): a string is a sequence of code points
RECURSIVE Utf8(_)
Utf8(s) == IF s = <<>> THEN <<>> ELSE Utf8Char(Head(s)) \o Utf8(Tail(s))

\* data + b"\x00" * n: a negative count gives the empty byte string
PadZeros(bytes, n) == bytes \o Zeros(Max(n, 0))

\* unsigned little-endian integer of w bytes (struct formats B, H, I, Q)
RECURSIVE LE(_, _)
LE(v, w) == IF w = 0 THEN <<>> ELSE <<v % 256>> \o LE(v \div 256, w - 1)

\* v fits an unsigned field of w bytes; the integers of the model are below
\* 2^31, so only the sign decides it for the 4-byte and 8-byte fields
RECURSIVE Pow256(_)
Pow256(w) == IF w = 0 THEN 1 ELSE 256 * Pow256(w - 1)
FitsUnsigned(v, w) == v >= 0 /\ (w >= 4 \/ v < Pow256(w))

(***************************************************************************)
(* Header and FileEntry.                                                   *)
(***************************************************************************)
MAGIC == <<90, 86, 70, 83, 68, 83, 75, 49>>   \* b"ZVFSDSK1"

DefaultHeader ==
    [magic |-> MAGIC, version |-> 1, flags |-> 0, reserved0 |-> 0,
     file_count |-> 0, file_capacity |-> MAX_FILES, file_entry_size |-> ENTRY_SIZE,
     reserved1 |-> 0, file_table_offset |-> FILE_TABLE_OFFSET,
     data_start_offset |-> DATA_START_OFFSET, next_free_offset |-> DATA_START_OFFSET,
     free_entry_offset |-> FILE_TABLE_OFFSET, deleted_files |-> 0,
     reserved2 |-> Zeros(26)]

\* struct.pack raises struct.error when an integer does not fit its field
HeaderPacks(h) ==
    /\ FitsUnsigned(h.version, 1) /\ FitsUnsigned(h.flags, 1)
    /\ FitsUnsigned(h.reserved0, 2) /\ FitsUnsigned(h.file_count, 2)
    /\ FitsUnsigned(h.file_capacity, 2) /\ FitsUnsigned(h.file_entry_size, 2)
    /\ FitsUnsigned(h.reserved1, 2) /\ FitsUnsigned(h.file_table_offset, 4)
    /\ FitsUnsigned(h.data_start_offset, 4) /\ FitsUnsigned(h.next_free_offset, 4)
    /\ FitsUnsigned(h.free_entry_offset, 4) /\ FitsUnsigned(h.deleted_files, 2)

\* Header.pack: "<8s B B H H H H H I I I I H 26s"
PackHeader(h) ==
    h.magic \o LE(h.version, 1) \o LE(h.flags, 1) \o LE(h.reserved0, 2)
    \o LE(h.file_count, 2) \o LE(h.file_capacity, 2) \o LE(h.file_entry_size, 2)
    \o LE(h.reserved1, 2) \o LE(h.file_table_offset, 4) \o LE(h.data_start_offset, 4)
    \o LE(h.next_free_offset, 4) \o LE(h.free_entry_offset, 4)
    \o LE(h.deleted_files, 2) \o h.reserved2

EmptyName == Zeros(32)

EmptyEntry ==
    [name |-> EmptyName, start |-> 0, length |-> 0, type |-> 0, flag |-> 0,
     reserved0 |-> 0, created |-> 0, reserved1 |-> Zeros(12)]

\* FileEntry.pack: "<32s I I B B H Q 12s"
PackEntry(e) ==
    e.name \o LE(e.start, 4) \o LE(e.length, 4) \o LE(e.type, 1) \o LE(e.flag, 1)
    \o LE(e.reserved0, 2) \o LE(e.created, 8) \o e.reserved1

is_empty(e) == e.name = EmptyName

\* struct.pack raises struct.error when an integer does not fit its field
EntryPacks(e) ==
    /\ FitsUnsigned(e.start, 4) /\ FitsUnsigned(e.length, 4)
    /\ FitsUnsigned(e.type, 1) /\ FitsUnsigned(e.flag, 1)
    /\ FitsUnsigned(e.reserved0, 2) /\ FitsUnsigned(e.created, 8)

(***************************************************************************)
(* The file beyond the entry table.  data[i] is the byte at file offset    *)
(* DATA_START_OFFSET + i - 1; the file's size is DATA_START_OFFSET +       *)
(* Len(data).  Every seek the program makes into this part of the file     *)
(* uses header.next_free_offset or an entry's start, which are never below *)
(* DATA_START_OFFSET (C5_EntriesInDataRegion below).                       *)
(***************************************************************************)
\* a variant that loses the last byte of a write at or past the end of the file
WriteAt_Short(d, off, bytes) ==
    LET p == off - DATA_START_OFFSET
    IN  IF bytes = <<>> THEN d
        ELSE IF p >= Len(d)
             THEN d \o Zeros(p - Len(d)) \o SubSeq(bytes, 1, Len(bytes) - 1)
        ELSE SubSeq(d, 1, p) \o bytes \o SubSeq(d, p + Len(bytes) + 1, Len(d))

\* f.seek(off); f.write(bytes): overwrites in place and extends the file (a
\* seek past the end leaves a gap of zero bytes)
WriteAt(d, off, bytes) ==
    LET p == off - DATA_START_OFFSET
    IN  IF bytes = <<>> THEN d
        ELSE IF p >= Len(d) THEN d \o Zeros(p - Len(d)) \o bytes
        ELSE SubSeq(d, 1, p) \o bytes \o SubSeq(d, p + Len(bytes) + 1, Len(d))

\* f.seek(off); f.read(n): stops at the end of the file
ReadAt(d, off, n) ==
    LET p == off - DATA_START_OFFSET
        q == IF p + n <= Len(d) THEN p + n ELSE Len(d)
    IN  SubSeq(d, p + 1, q)

\* a variant that always leaves room for one more byte
Padded_NextBlock(size) == ((size \div DATA_ALIGNMENT) + 1) * DATA_ALIGNMENT

\* a variant without alignment
Padded_Exact(size) == size

\* a variant that rounds down
Padded_Floor(size) == (size \div DATA_ALIGNMENT) * DATA_ALIGNMENT

\* (size + (DATA_ALIGNMENT - 1)) // DATA_ALIGNMENT * DATA_ALIGNMENT
Padded(size) == ((size + (DATA_ALIGNMENT - 1)) \div DATA_ALIGNMENT) * DATA_ALIGNMENT

(***************************************************************************)
(* FileSystem helpers.                                                     *)
(***************************************************************************)
\* raise ValueError: no byte string has this value
ValueError == <<-1>>

\* encode_filename: ValueError when the string has more than 31 characters
encode_filename(file) ==
    IF Len(file) > 31 THEN ValueError
    ELSE LET encoded_file == Utf8(file)
         IN  PadZeros(encoded_file, 32 - Len(encoded_file))

\* a variant that takes the last slot when none is empty
FreePosition_LastSlot(es) ==
    IF \E i \in 1..Len(es) : is_empty(es[i])
    THEN (CHOOSE i \in 1..Len(es) :
             is_empty(es[i]) /\ \A j \in 1..(i - 1) : ~is_empty(es[j])) - 1
    ELSE Len(es) - 1

\* next((idx for idx, entry in enumerate(entries) if entry.is_empty()), None);
\* slots are numbered from 0 as in the program, None is -1
FreePosition(es) ==
    IF \E i \in 1..Len(es) : is_empty(es[i])
    THEN (CHOOSE i \in 1..Len(es) :
             is_empty(es[i]) /\ \A j \in 1..(i - 1) : ~is_empty(es[j])) - 1
    ELSE -1

\* a variant that passes over the entries flagged as deleted
compare_filenames_Live(file_entries, filename) ==
    IF \E i \in 1..Len(file_entries) :
          file_entries[i].name = filename /\ file_entries[i].flag = 0
    THEN (CHOOSE i \in 1..Len(file_entries) :
             /\ file_entries[i].name = filename /\ file_entries[i].flag = 0
             /\ \A j \in 1..(i - 1) :
                   ~(file_entries[j].name = filename /\ file_entries[j].flag = 0)) - 1
    ELSE -1

\* a variant that finds no entry
compare_filenames_Never(file_entries, filename) == -1

\* compare_filenames: the index of the first entry with that name; -1 stands
\* for the AssertionError the program raises when there is none
compare_filenames(file_entries, filename) ==
    IF \E i \in 1..Len(file_entries) : file_entries[i].name = filename
    THEN (CHOOSE i \in 1..Len(file_entries) :
             /\ file_entries[i].name = filename
             /\ \A j \in 1..(i - 1) : file_entries[j].name # filename) - 1
    ELSE -1

\* a variant that always writes at the start of the table
write_entry_First(es, e, position) == [es EXCEPT ![1] = e]

\* FileEntry.write_entry(entry, f, position) for a position in the table
write_entry(es, e, position) ==
    [es EXCEPT ![((position - FILE_TABLE_OFFSET) \div ENTRY_SIZE) + 1] = e]

(***************************************************************************)
(* Inputs: file names (strings as sequences of code points), the contents  *)
(* of host files, the clock.                                               *)
(***************************************************************************)
A_TXT == <<97, 46, 116, 120, 116>>            \* "a.txt"
B_TXT == <<98, 46, 116, 120, 116>>            \* "b.txt"
N31 == [i \in 1..31 |-> 110]                  \* 31 ASCII characters
N32 == [i \in 1..32 |-> 110]                  \* 32 ASCII characters
MB16 == [i \in 1..16 |-> 233]                 \* 16 characters, 32 UTF-8 bytes
MB15A == [i \in 1..15 |-> 233] \o <<97>>       \* 16 characters, 31 UTF-8 bytes
MB31 == [i \in 1..31 |-> 233]                 \* 31 characters, 62 UTF-8 bytes
E11 == [i \in 1..11 |-> 8364]                 \* 11 characters, 33 UTF-8 bytes

StoredNames == {A_TXT, B_TXT}
Names == StoredNames \cup {N32, MB16}

NoFile == <<-2>>                              \* there is no such host file
HELLO == <<104, 101, 108, 108, 111>>          \* b"hello"
P65 == [i \in 1..65 |-> 100 + i]
P64 == [i \in 1..64 |-> 30 + i]
P70 == [i \in 1..70 |-> 180 + i]
\* what the host file of each name can be when addfs looks for it
HostContents(n) ==
    IF n = A_TXT THEN {HELLO, <<>>, NoFile}
    ELSE IF n = B_TXT THEN {P70}
    ELSE IF n = N31 THEN {P65}
    ELSE {HELLO}
\* whether a host file of that name can be there when rmfs looks for it
OnHost(n) == IF n = A_TXT THEN BOOLEAN ELSE {TRUE}

(***************************************************************************)
(* State.                                                                  *)
(*   fs_exists  the container file exists on the host                      *)
(*   header     the header of the container file                           *)
(*   entries    the 32 entries of its table                                *)
(*   data       the bytes of the file from DATA_START_OFFSET on            *)
(*   last       the last command: its name, argument, outcome and output   *)
(*   added      history: for each name, the payload of its last successful *)
(*              addfs since the last dfrgfs or mkfs (NoFile if none)       *)
(*   writes     the writes the last command made to the container file, in *)
(*              the order it made them                                     *)
(***************************************************************************)
VARIABLES fs_exists, header, entries, data, last, added, writes

vars == <<fs_exists, header, entries, data, last, added, writes>>
container == <<fs_exists, header, entries, data>>

NoneAdded == [n \in Names \cup {N31, MB15A, MB31, E11} |-> NoFile]

Result(op, arg, status, out) == [op |-> op, arg |-> arg, status |-> status, out |-> out]

\* one f.write: what is written, at which file offset, how many bytes
W(kind, off, len) == [kind |-> kind, off |-> off, len |-> len]

Init ==
    /\ fs_exists = FALSE
    /\ header = DefaultHeader
    /\ entries = [i \in 1..MAX_FILES |-> EmptyEntry]
    /\ data = <<>>
    /\ last = Result("none", <<>>, "ok", <<>>)
    /\ added = NoneAdded
    /\ writes = <<>>

(***************************************************************************)
(* mkfs (zvfs.py:273-304).  answer is what the user types at the prompt.   *)
(***************************************************************************)
\* f.write(self.header.pack()), then f.write(entry) for each of the 32 slots
mkfs_writes ==
    <<W("header", 0, HEADER_SIZE)>>
    \o [i \in 1..MAX_FILES |-> W("entry", FILE_TABLE_OFFSET + (i - 1) * ENTRY_SIZE, ENTRY_SIZE)]

\* a variant that writes header and table over the old file
Fresh_InPlace ==
    /\ fs_exists' = TRUE
    /\ header' = DefaultHeader
    /\ entries' = [i \in 1..MAX_FILES |-> EmptyEntry]
    /\ data' = data
    /\ added' = NoneAdded
    /\ writes' = mkfs_writes

Fresh ==
    /\ fs_exists' = TRUE
    /\ header' = DefaultHeader
    /\ entries' = [i \in 1..MAX_FILES |-> EmptyEntry]
    /\ data' = <<>>
    /\ added' = NoneAdded
    /\ writes' = mkfs_writes

mkfs(answer) ==
    /\ IF ~fs_exists
       THEN Fresh /\ last' = Result("mkfs", <<>>, "ok", <<>>)
       ELSE CASE answer = "OVERWRITE" ->
                    Fresh /\ last' = Result("mkfs", <<>>, "ok", <<>>)
              [] answer = "ABORT" ->
                    /\ UNCHANGED <<container, added>>
                    /\ writes' = <<>>
                    /\ last' = Result("mkfs", <<>>, "abort", <<>>)
              [] OTHER ->
                    /\ UNCHANGED <<container, added>>
                    /\ writes' = <<>>
                    /\ last' = Result("mkfs", <<>>, "bad_answer", <<>>)

(***************************************************************************)
(* addfs (zvfs.py:335-430).  content is the content of the host file       *)
(* new_file, NoFile when there is no such file; t is int(time.time()).     *)
(* The outcome is the container after the call and how the call ended.     *)
(***************************************************************************)
Outcome(status, h, es, d) == [status |-> status, header |-> h, entries |-> es, data |-> d]

\* a variant that does not advance next_free_offset
AddHeader_Stale(h, padded) == [h EXCEPT !.file_count = @ + 1]

\* a variant that also advances free_entry_offset by one slot
AddHeader_Cursor(h, padded) ==
    [h EXCEPT !.file_count = @ + 1, !.next_free_offset = h.next_free_offset + padded,
              !.free_entry_offset = @ + ENTRY_SIZE]

\* a variant that advances next_free_offset by half the padded length
AddHeader_Half(h, padded) ==
    [h EXCEPT !.file_count = @ + 1,
              !.next_free_offset = h.next_free_offset + (padded \div 2)]

\* header_fs.file_count += 1; header_fs.next_free_offset = current_data_offset + padded
AddHeader(h, padded) ==
    [h EXCEPT !.file_count = @ + 1, !.next_free_offset = h.next_free_offset + padded]

addfs_outcome(h, es, d, new_file, content, t) ==
    LET free_position == FreePosition(es)
        filename == encode_filename(new_file)
        name_encoded == Utf8(new_file)
        file_size == Len(content)
        current_data_offset == h.next_free_offset
        padded == Padded(file_size)
        padding_size == IF padded > file_size THEN padded - file_size ELSE 0
        d1 == WriteAt(WriteAt(d, current_data_offset, content),
                      current_data_offset + file_size, Zeros(padding_size))
        new_entry == [name |-> PadZeros(name_encoded, 32 - Len(name_encoded)),
                      start |-> current_data_offset, length |-> file_size,
                      type |-> 0, flag |-> 0, reserved0 |-> 0, created |-> t,
                      reserved1 |-> Zeros(12)]
        entry_offset == FILE_TABLE_OFFSET + free_position * ENTRY_SIZE
        es1 == write_entry(es, new_entry, entry_offset)
        h1 == AddHeader(h, padded)
    IN  IF content = NoFile THEN Outcome("no_host_file", h, es, d)
        ELSE IF filename = ValueError THEN Outcome("ValueError", h, es, d)
        ELSE IF compare_filenames(es, filename) # -1 THEN Outcome("duplicate", h, es, d)
        ELSE IF Len(name_encoded) > 31 THEN Outcome("name_too_long", h, es, d)
        \* the payload and its padding are written here
        ELSE IF free_position = -1 THEN Outcome("TypeError", h, es, d1)
        ELSE IF ~EntryPacks(new_entry) THEN Outcome("struct.error", h, es, d1)
        ELSE IF ~HeaderPacks(h1) THEN Outcome("struct.error", h, es1, d1)
        ELSE Outcome("ok", h1, es1, d1)

\* a variant that writes the header before the entry
addfs_writes_HeaderFirst(h, es, content, o) ==
    LET file_size == Len(content)
        padded == Padded(file_size)
        padding_size == IF padded > file_size THEN padded - file_size ELSE 0
        current_data_offset == h.next_free_offset
        payload == <<W("payload", current_data_offset, file_size),
                     W("padding", current_data_offset + file_size, padding_size)>>
        entry == <<W("entry", FILE_TABLE_OFFSET + FreePosition(es) * ENTRY_SIZE, ENTRY_SIZE)>>
    IN  IF o.status \in {"no_host_file", "ValueError", "duplicate", "name_too_long"}
        THEN <<>>
        ELSE IF o.status = "ok" THEN payload \o <<W("header", 0, HEADER_SIZE)>> \o entry
        ELSE IF o.entries # es THEN payload \o entry
        ELSE payload

\* the writes of addfs (zvfs.py:400-428): f.write(file_content),
\* f.write(padding), write_entry, write_header; a failure ends the sequence
\* (pack raises before the write it feeds)
addfs_writes(h, es, content, o) ==
    LET file_size == Len(content)
        padded == Padded(file_size)
        padding_size == IF padded > file_size THEN padded - file_size ELSE 0
        current_data_offset == h.next_free_offset
        payload == <<W("payload", current_data_offset, file_size),
                     W("padding", current_data_offset + file_size, padding_size)>>
        entry == <<W("entry", FILE_TABLE_OFFSET + FreePosition(es) * ENTRY_SIZE, ENTRY_SIZE)>>
    IN  IF o.status \in {"no_host_file", "ValueError", "duplicate", "name_too_long"}
        THEN <<>>
        ELSE IF o.status = "ok" THEN payload \o entry \o <<W("header", 0, HEADER_SIZE)>>
        ELSE IF o.entries # es THEN payload \o entry
        ELSE payload

Apply(o) ==
    /\ header' = o.header
    /\ entries' = o.entries
    /\ data' = o.data
    /\ UNCHANGED fs_exists

addfs(new_file, content, t) ==
    /\ IF ~fs_exists
       THEN /\ UNCHANGED <<container, added>>
            /\ writes' = <<>>
            /\ last' = Result("addfs", new_file, "no_filesystem", <<>>)
       ELSE LET o == addfs_outcome(header, entries, data, new_file, content, t)
            IN  /\ Apply(o)
                /\ writes' = addfs_writes(header, entries, content, o)
                /\ last' = Result("addfs", new_file, o.status, <<>>)
                /\ added' = IF o.status = "ok"
                            THEN [added EXCEPT ![new_file] = content]
                            ELSE added

(***************************************************************************)
(* getfs (zvfs.py:432-473) and catfs (zvfs.py:559-593).  Both look the     *)
(* name up among all entries, deleted ones included, and read length bytes *)
(* at start.  getfs hands the bytes to a host file, catfs decodes and      *)
(* prints them; out is what they produce.                                  *)
(***************************************************************************)
read_outcome(es, d, file) ==
    LET filename == encode_filename(file)
        file_index == compare_filenames(es, filename)
        entry == es[file_index + 1]
    IN  IF filename = ValueError THEN [status |-> "ValueError", out |-> <<>>]
        ELSE IF file_index = -1 THEN [status |-> "not_found", out |-> <<>>]
        ELSE [status |-> "ok", out |-> ReadAt(d, entry.start, entry.length)]

\* bytes.decode("utf-8") succeeds
RECURSIVE ValidUtf8(_)
ValidUtf8(b) ==
    LET Cont(i, lo, hi) == Len(b) >= i /\ b[i] >= lo /\ b[i] <= hi
        Rest(k) == ValidUtf8(SubSeq(b, k + 1, Len(b)))
    IN  IF b = <<>> THEN TRUE
        ELSE IF b[1] < 128 THEN Rest(1)
        ELSE IF b[1] >= 194 /\ b[1] <= 223 THEN Cont(2, 128, 191) /\ Rest(2)
        ELSE IF b[1] = 224 THEN Cont(2, 160, 191) /\ Cont(3, 128, 191) /\ Rest(3)
        ELSE IF b[1] = 237 THEN Cont(2, 128, 159) /\ Cont(3, 128, 191) /\ Rest(3)
        ELSE IF b[1] >= 225 /\ b[1] <= 239
             THEN Cont(2, 128, 191) /\ Cont(3, 128, 191) /\ Rest(3)
        ELSE IF b[1] = 240
             THEN Cont(2, 144, 191) /\ Cont(3, 128, 191) /\ Cont(4, 128, 191) /\ Rest(4)
        ELSE IF b[1] >= 241 /\ b[1] <= 243
             THEN Cont(2, 128, 191) /\ Cont(3, 128, 191) /\ Cont(4, 128, 191) /\ Rest(4)
        ELSE IF b[1] = 244
             THEN Cont(2, 128, 143) /\ Cont(3, 128, 191) /\ Cont(4, 128, 191) /\ Rest(4)
        ELSE FALSE

\* a variant that restores the file over the data region of the container
getfs_Clobber(extraction_file) ==
    /\ fs_exists
    /\ LET o == read_outcome(entries, data, extraction_file)
       IN  /\ last' = Result("getfs", extraction_file, o.status, o.out)
           /\ data' = o.out
    /\ UNCHANGED <<fs_exists, header, entries, added>>
    /\ writes' = <<>>

getfs(extraction_file) ==
    /\ IF ~fs_exists
       THEN last' = Result("getfs", extraction_file, "no_filesystem", <<>>)
       ELSE LET o == read_outcome(entries, data, extraction_file)
            IN  last' = Result("getfs", extraction_file, o.status, o.out)
    /\ UNCHANGED <<container, added>>
    /\ writes' = <<>>

catfs(file) ==
    /\ IF ~fs_exists
       THEN last' = Result("catfs", file, "no_filesystem", <<>>)
       ELSE LET o == read_outcome(entries, data, file)
            IN  IF o.status = "ok" /\ ~ValidUtf8(o.out)
                THEN last' = Result("catfs", file, "UnicodeDecodeError", <<>>)
                ELSE last' = Result("catfs", file, o.status, o.out)
    /\ UNCHANGED <<container, added>>
    /\ writes' = <<>>

(***************************************************************************)
(* rmfs (zvfs.py:475-518).  on_host: a host file of that name exists.      *)
(***************************************************************************)
\* fs_header.deleted_files += 1; fs_header.file_count -= 1
RemoveHeader(h) == [h EXCEPT !.deleted_files = @ + 1, !.file_count = @ - 1]

\* a variant that also points the entry at the start of the data region
MarkDeleted_Rewind(e) == [e EXCEPT !.flag = 1, !.start = DATA_START_OFFSET]

\* a variant that also clears the length
MarkDeleted_Wipe(e) == [e EXCEPT !.flag = 1, !.length = 0]

\* entry.flag = 1
MarkDeleted(e) == [e EXCEPT !.flag = 1]

rmfs_outcome(h, es, d, remove_file, on_host) ==
    LET filename == encode_filename(remove_file)
        file_index == compare_filenames(es, filename)
        entry == MarkDeleted(es[file_index + 1])
        h1 == RemoveHeader(h)
        entry_start_position == FILE_TABLE_OFFSET + file_index * ENTRY_SIZE
        es1 == write_entry(es, entry, entry_start_position)
    IN  IF ~on_host THEN Outcome("no_host_file", h, es, d)
        ELSE IF filename = ValueError THEN Outcome("ValueError", h, es, d)
        ELSE IF file_index = -1 THEN Outcome("not_found", h, es, d)
        ELSE IF ~EntryPacks(entry) THEN Outcome("struct.error", h, es, d)
        ELSE IF ~HeaderPacks(h1) THEN Outcome("struct.error", h, es1, d)
        ELSE Outcome("ok", h1, es1, d)

\* the writes of rmfs (zvfs.py:513-516): write_entry, write_header
rmfs_writes(es, remove_file, o) ==
    LET file_index == compare_filenames(es, encode_filename(remove_file))
        entry == W("entry", FILE_TABLE_OFFSET + file_index * ENTRY_SIZE, ENTRY_SIZE)
    IN  IF o.status \in {"no_host_file", "ValueError", "not_found"} THEN <<>>
        ELSE IF o.status = "ok" THEN <<entry, W("header", 0, HEADER_SIZE)>>
        ELSE IF EntryPacks(MarkDeleted(es[file_index + 1])) THEN <<entry>>
        ELSE <<>>

rmfs(remove_file, on_host) ==
    /\ IF ~fs_exists
       THEN /\ UNCHANGED container
            /\ writes' = <<>>
            /\ last' = Result("rmfs", remove_file, "no_filesystem", <<>>)
       ELSE LET o == rmfs_outcome(header, entries, data, remove_file, on_host)
            IN  /\ Apply(o)
                /\ writes' = rmfs_writes(entries, remove_file, o)
                /\ last' = Result("rmfs", remove_file, o.status, <<>>)
    /\ UNCHANGED added

(***************************************************************************)
(* lsfs (zvfs.py:520-557) and gifs (zvfs.py:305-333).                      *)
(***************************************************************************)
\* FileEntry.filename: the name up to its first zero byte
RECURSIVE UpToNul(_)
UpToNul(b) == IF b = <<>> \/ Head(b) = 0 THEN <<>> ELSE <<Head(b)>> \o UpToNul(Tail(b))

Listed(e) == ~(is_empty(e) \/ e.flag = 1)

lsfs ==
    /\ IF ~fs_exists
       THEN last' = Result("lsfs", <<>>, "no_filesystem", <<>>)
       ELSE LET shown == SelectSeq(entries, Listed)
                lines == [i \in 1..Len(shown) |->
                            <<UpToNul(shown[i].name), shown[i].length, shown[i].created>>]
            IN  last' = Result("lsfs", <<>>, IF shown = <<>> THEN "empty" ELSE "ok", lines)
    /\ UNCHANGED <<container, added>>
    /\ writes' = <<>>

gifs ==
    /\ IF ~fs_exists
       THEN last' = Result("gifs", <<>>, "no_filesystem", <<>>)
       ELSE LET files == header.file_count
                deleted_files == header.deleted_files
                free_entries == header.file_capacity - files - deleted_files
                fs_size == DATA_START_OFFSET + Len(data)
            IN  last' = Result("gifs", <<>>, "ok",
                               <<files, free_entries, deleted_files, fs_size>>)
    /\ UNCHANGED <<container, added>>
    /\ writes' = <<>>

(***************************************************************************)
(* dfrgfs (zvfs.py:595-702).                                               *)
(***************************************************************************)
Kept(e) == ~is_empty(e) /\ e.flag = 0
Removed(e) == ~is_empty(e) /\ e.flag # 0

\* a variant that leaves the old start in the entry
Moved_Not(entry, current_data_offset) == entry

\* entry.start = current_data_offset
Moved(entry, current_data_offset) == [entry EXCEPT !.start = current_data_offset]

\* the loop over files_to_keep (zvfs.py:650-673) moves each payload to the
\* cursor, pads it, and records the new start; Compact is its state after
\* the first k iterations: the entries moved so far, the data region and
\* the cursor
RECURSIVE Compact(_, _, _)
Compact(files_to_keep, d, k) ==
    IF k = 0
    THEN [keep |-> <<>>, data |-> d, cursor |-> DATA_START_OFFSET]
    ELSE LET prev == Compact(files_to_keep, d, k - 1)
             entry == files_to_keep[k]
             current_data_offset == prev.cursor
             bytes == ReadAt(prev.data, entry.start, entry.length)
             d1 == WriteAt(prev.data, current_data_offset, bytes)
             padded == Padded(entry.length)
             d2 == IF padded > entry.length
                   THEN WriteAt(d1, current_data_offset + Len(bytes),
                                Zeros(padded - entry.length))
                   ELSE d1
         IN  [keep |-> Append(prev.keep, Moved(entry, current_data_offset)),
              data |-> d2, cursor |-> current_data_offset + padded]

RECURSIVE SumLength(_)
SumLength(es) == IF es = <<>> THEN 0 ELSE Head(es).length + SumLength(Tail(es))

\* a variant that resets next_free_offset to the start of the data region
DfrgHeader_Reset(h, kept, current_data_offset) ==
    [h EXCEPT !.file_count = kept, !.deleted_files = 0,
              !.next_free_offset = DATA_START_OFFSET,
              !.free_entry_offset = FILE_TABLE_OFFSET + kept * ENTRY_SIZE]

\* a variant that advances free_entry_offset from its old value
DfrgHeader_Advance(h, kept, current_data_offset) ==
    [h EXCEPT !.file_count = kept, !.deleted_files = 0,
              !.next_free_offset = current_data_offset,
              !.free_entry_offset = h.free_entry_offset + kept * ENTRY_SIZE]

\* a variant that sets file_capacity to the number of entries kept
DfrgHeader_Shrink(h, kept, current_data_offset) ==
    [h EXCEPT !.file_count = kept, !.deleted_files = 0,
              !.next_free_offset = current_data_offset,
              !.free_entry_offset = FILE_TABLE_OFFSET + kept * ENTRY_SIZE,
              !.file_capacity = kept]

\* the header dfrgfs writes (zvfs.py:690-700)
DfrgHeader(h, kept, current_data_offset) ==
    [h EXCEPT !.file_count = kept, !.deleted_files = 0,
              !.next_free_offset = current_data_offset,
              !.free_entry_offset = FILE_TABLE_OFFSET + kept * ENTRY_SIZE]

\* a variant that fills the rest of the table with deleted empty entries
DfrgTable_Flagged(keep) ==
    keep \o [i \in 1..(MAX_FILES - Len(keep)) |-> [EmptyEntry EXCEPT !.flag = 1]]

\* a variant that writes the entries kept in reverse order
DfrgTable_Reversed(keep) ==
    [i \in 1..Len(keep) |-> keep[Len(keep) + 1 - i]]
        \o [i \in 1..(MAX_FILES - Len(keep)) |-> EmptyEntry]

\* the table dfrgfs writes (zvfs.py:675-688)
DfrgTable(keep) ==
    keep \o [i \in 1..(MAX_FILES - Len(keep)) |-> EmptyEntry]

dfrgfs_outcome(h, es, d) ==
    LET files_to_keep == SelectSeq(es, Kept)
        c == Compact(files_to_keep, d, Len(files_to_keep))
    IN  Outcome("ok", DfrgHeader(h, Len(files_to_keep), c.cursor), DfrgTable(c.keep), c.data)

\* the writes of the k-th iteration of the loop (zvfs.py:659-667): the
\* payload at the cursor and, if the length is not a multiple of 64, padding
MoveWrites(files_to_keep, d, k) ==
    LET entry == files_to_keep[k]
        current_data_offset == Compact(files_to_keep, d, k - 1).cursor
        padded == Padded(entry.length)
    IN  <<W("payload", current_data_offset, entry.length)>>
        \o (IF padded > entry.length
            THEN <<W("padding", current_data_offset + entry.length, padded - entry.length)>>
            ELSE <<>>)

RECURSIVE MovesUpTo(_, _, _)
MovesUpTo(files_to_keep, d, k) ==
    IF k = 0 THEN <<>>
    ELSE MovesUpTo(files_to_keep, d, k - 1) \o MoveWrites(files_to_keep, d, k)

\* the writes of dfrgfs (zvfs.py:652-700): the payloads in keep order, the
\* 32 entries of the table from FILE_TABLE_OFFSET on, the header
dfrgfs_writes(es, d) ==
    LET files_to_keep == SelectSeq(es, Kept)
    IN  MovesUpTo(files_to_keep, d, Len(files_to_keep))
        \o [i \in 1..MAX_FILES |->
               W("entry", FILE_TABLE_OFFSET + (i - 1) * ENTRY_SIZE, ENTRY_SIZE)]
        \o <<W("header", 0, HEADER_SIZE)>>

dfrgfs ==
    /\ IF ~fs_exists
       THEN /\ UNCHANGED <<container, added>>
            /\ writes' = <<>>
            /\ last' = Result("dfrgfs", <<>>, "no_filesystem", <<>>)
       ELSE LET o == dfrgfs_outcome(header, entries, data)
                files_to_remove == SelectSeq(entries, Removed)
            IN  /\ Apply(o)
                /\ writes' = dfrgfs_writes(entries, data)
                /\ last' = Result("dfrgfs", <<>>, o.status,
                                  <<Len(files_to_remove), SumLength(files_to_remove)>>)
                /\ added' = NoneAdded

(***************************************************************************)
(* Spec: every command, on the names a.txt and b.txt and on two names that *)
(* are too long.                                                           *)
(***************************************************************************)
Times == 1..MaxTime

Next ==
    \/ \E answer \in {"OVERWRITE", "ABORT", "no"} : mkfs(answer)
    \/ \E n \in Names : \E content \in HostContents(n) :
          \E t \in Times : addfs(n, content, t)
    \/ \E n \in StoredNames \cup {N32} : getfs(n)
    \/ \E n \in StoredNames \cup {N32} : catfs(n)
    \/ \E n \in StoredNames \cup {N32} : \E on_host \in OnHost(n) : rmfs(n, on_host)
    \/ lsfs
    \/ gifs
    \/ dfrgfs

Spec == Init /\ [][Next]_vars

(***************************************************************************)
(* SpecMove: the commands that change the container, on three names that  *)
(* can be stored (the third has 31 characters), so that deleted entries    *)
(* lie between live ones.  The host files exist and the clock stands       *)
(* still.                                                                  *)
(***************************************************************************)
MovedNames == {A_TXT, B_TXT, N31}

NextMove ==
    \/ mkfs("OVERWRITE")
    \/ \E n \in MovedNames : \E content \in HostContents(n) \ {NoFile} :
          addfs(n, content, 1)
    \/ \E n \in MovedNames : rmfs(n, TRUE)
    \/ dfrgfs

SpecMove == Init /\ [][NextMove]_vars

(***************************************************************************)
(* SpecFull: the table filled to its last slot.  The environment first     *)
(* adds NumFillers empty files f01, f02, ... in order to a container that  *)
(* holds nothing else; the other commands run once they are all in, and    *)
(* a.txt or b.txt then takes the slot left.                                *)
(***************************************************************************)
NumFillers == 31

\* the name "fNN" of the k-th filler file
Filler(k) == <<102, 48 + (k \div 10), 48 + (k % 10)>>

\* the next filler goes into the first empty slot while fillers are missing
addfs_filler ==
    /\ fs_exists /\ FreePosition(entries) \in 0..(NumFillers - 1)
    /\ LET new_file == Filler(FreePosition(entries) + 1)
           o == addfs_outcome(header, entries, data, new_file, <<>>, 1)
       IN  /\ Apply(o)
           /\ writes' = addfs_writes(header, entries, <<>>, o)
           /\ last' = Result("addfs", new_file, o.status, <<>>)
           /\ UNCHANGED added

\* the fillers are all in the table
FillersIn == ~is_empty(entries[NumFillers])

NextFull ==
    \/ mkfs("OVERWRITE")
    \/ addfs_filler
    \/ FillersIn /\ \E n \in Names : \E content \in HostContents(n) : addfs(n, content, 1)
    \/ FillersIn /\ \E n \in StoredNames : rmfs(n, TRUE)
    \/ FillersIn /\ dfrgfs

SpecFull == Init /\ [][NextFull]_vars

(***************************************************************************)
(* SpecName: names around the limit of 31, in characters and in bytes:     *)
(* two that can be stored (31 bytes each, one of them with two-byte        *)
(* characters) and four that cannot.                                       *)
(***************************************************************************)
ShortNames == {N31, MB15A}
LongNames == {N32, MB16, MB31, E11}

NextName ==
    \/ mkfs("OVERWRITE")
    \/ \E n \in ShortNames \cup LongNames : \E content \in HostContents(n) :
          addfs(n, content, 1)
    \/ \E n \in ShortNames : rmfs(n, TRUE)
    \/ dfrgfs

SpecName == Init /\ [][NextName]_vars

(***************************************************************************)
(* SpecAdd: payloads around the block size: a.txt has 0, 64 or 65 bytes,   *)
(* b.txt has 5.                                                            *)
(***************************************************************************)
AddContents(n) == IF n = A_TXT THEN {<<>>, P64, P65} ELSE {HELLO}

NextAdd ==
    \/ mkfs("OVERWRITE")
    \/ \E n \in StoredNames : \E content \in AddContents(n) :
          \E t \in Times : addfs(n, content, t)
    \/ \E n \in StoredNames : rmfs(n, TRUE)
    \/ dfrgfs

SpecAdd == Init /\ [][NextAdd]_vars

(***************************************************************************)
(* SpecForeign: the file at the path need not come from mkfs.  Another     *)
(* program has put other bytes where the magic and the version are; the    *)
(* commands that read the header (zvfs.py:116-125) then run on that file.  *)
(***************************************************************************)
BAD_MAGIC == <<78, 79, 84, 65, 90, 86, 70, 83>>   \* b"NOTAZVFS"
Magics == {MAGIC, BAD_MAGIC}
Versions == {1, 2}

\* the first nine bytes of the file are written from outside
foreign_header(magic, version) ==
    /\ fs_exists
    /\ header' = [header EXCEPT !.magic = magic, !.version = version]
    /\ last' = Result("host", <<>>, "ok", <<>>)
    /\ UNCHANGED <<fs_exists, entries, data, added>>
    /\ writes' = <<>>

NextForeign ==
    \/ mkfs("OVERWRITE")
    \/ \E magic \in Magics : \E version \in Versions : foreign_header(magic, version)
    \/ \E n \in StoredNames : \E content \in HostContents(n) : addfs(n, content, 1)
    \/ \E n \in StoredNames : rmfs(n, TRUE)
    \/ gifs
    \/ dfrgfs

SpecForeign == Init /\ [][NextForeign]_vars

(***************************************************************************)
(* SpecPerm: four files added to a fresh container, in every order.        *)
(***************************************************************************)
PermNames == {A_TXT, B_TXT, N31, MB15A}

NextPerm ==
    \/ mkfs("OVERWRITE")
    \/ \E n \in PermNames : \E content \in HostContents(n) : addfs(n, content, 1)

SpecPerm == Init /\ [][NextPerm]_vars

(***************************************************************************)
(* What the claims speak of.                                               *)
(***************************************************************************)
Slots == 1..MAX_FILES
NonEmptySlots == {i \in Slots : ~is_empty(entries[i])}
LiveSlots == {i \in Slots : ~is_empty(entries[i]) /\ entries[i].flag = 0}
DeletedSlots == {i \in Slots : ~is_empty(entries[i]) /\ entries[i].flag = 1}
FileSize == DATA_START_OFFSET + Len(data)

\* the 32-byte name under which addfs stores a file
StoredName(n) == PadZeros(Utf8(n), 32 - Len(Utf8(n)))
IsLive(n) == \E i \in LiveSlots : entries[i].name = StoredName(n)
IsDeleted(n) == \E i \in DeletedSlots : entries[i].name = StoredName(n)
SlotOf(n) == CHOOSE i \in Slots : entries[i].name = StoredName(n)

\* what extract(n) yields
Extract(n) == read_outcome(entries, data, n)

\* C1: in every reachable state header.file_count is the number of live
\* entries, header.deleted_files the number of deleted entries, and their
\* sum is at most 32.
C1_CountersMatchTable ==
    fs_exists =>
        /\ header.file_count = Cardinality(LiveSlots)
        /\ header.deleted_files = Cardinality(DeletedSlots)
        /\ header.file_count + header.deleted_files <= 32

\* C2: after a successful add(n, p), and whatever adds and removes of other
\* names follow, extract(n) succeeds and yields exactly p.
C2_AddThenExtract ==
    \A n \in StoredNames :
        (fs_exists /\ added[n] # NoFile /\ IsLive(n)) =>
            Extract(n) = [status |-> "ok", out |-> added[n]]

\* a.txt was added with "hello", b.txt was added after it and then removed,
\* and getfs a.txt has just returned "hello"
C2_Witness ==
    /\ fs_exists /\ added[A_TXT] = HELLO /\ IsLive(A_TXT)
    /\ IsDeleted(B_TXT) /\ SlotOf(B_TXT) > SlotOf(A_TXT)
    /\ last = Result("getfs", A_TXT, "ok", HELLO)

\* C3: defragment preserves live content: for every entry that is live
\* before a defragment, extract(name) yields the same bytes after it.
C3_DefragmentPreservesContent ==
    [][(last'.op = "dfrgfs" /\ last'.status = "ok") =>
          \A n \in MovedNames :
              IsLive(n) => read_outcome(entries', data', n) = Extract(n)]_vars

\* a defragment has just dropped the deleted b.txt (70 bytes) that lay
\* between a.txt and the 31-character name, and moved the 65 bytes of the
\* latter one block of 128 bytes forward: its old copy is still in the file
C3_Witness ==
    /\ last = Result("dfrgfs", <<>>, "ok", <<1, 70>>)
    /\ entries[1].name = StoredName(A_TXT) /\ Extract(A_TXT).out = HELLO
    /\ entries[2].name = StoredName(N31) /\ Extract(N31).out = P65
    /\ entries[2].start = DATA_START_OFFSET + 64
    /\ Len(data) = 320 /\ SubSeq(data, 193, 257) = P65

\* some byte of the file belongs to the payloads of both entries
Overlap(e1, e2) ==
    Max(e1.start, e2.start) <
        (IF e1.start + e1.length <= e2.start + e2.length
         THEN e1.start + e1.length ELSE e2.start + e2.length)

\* C4: no two non-empty entries, live or deleted, have overlapping payload
\* byte ranges.
C4_NoOverlap ==
    fs_exists =>
        \A i \in NonEmptySlots : \A j \in NonEmptySlots :
            i # j => ~Overlap(entries[i], entries[j])

\* after a defragment, a deleted a.txt and a live b.txt, both non-empty, lie
\* next to each other
C4_Witness ==
    /\ fs_exists /\ header.free_entry_offset # FILE_TABLE_OFFSET
    /\ IsDeleted(A_TXT) /\ entries[SlotOf(A_TXT)].length = 5
    /\ IsLive(B_TXT) /\ entries[SlotOf(B_TXT)].length = 70
    /\ entries[SlotOf(A_TXT)].start = entries[SlotOf(B_TXT)].start + 128

\* C5: every non-empty entry has a start that is a multiple of 64 and at
\* least 2112, and start + length is at most header.next_free_offset.
C5_EntriesInDataRegion ==
    fs_exists =>
        \A i \in NonEmptySlots :
            /\ entries[i].start % 64 = 0
            /\ entries[i].start >= 2112
            /\ entries[i].start + entries[i].length <= header.next_free_offset

\* after a defragment, b.txt ends six bytes into the last block before
\* next_free_offset and an empty a.txt starts at next_free_offset
C5_Witness ==
    /\ fs_exists /\ header.free_entry_offset # FILE_TABLE_OFFSET
    /\ IsLive(B_TXT) /\ IsLive(A_TXT)
    /\ entries[SlotOf(B_TXT)].start + 70 = header.next_free_offset - 58
    /\ entries[SlotOf(A_TXT)].length = 0
    /\ entries[SlotOf(A_TXT)].start = header.next_free_offset

\* C6: after a defragment the size of the container file is the new
\* header.next_free_offset (2240 bytes after mkfs, add of the 5-byte a.txt,
\* add of the 70-byte b.txt, remove a.txt, defragment).
C6_SizeAfterDefragment ==
    (fs_exists /\ last.op = "dfrgfs" /\ last.status = "ok") =>
        FileSize = header.next_free_offset

\* ceil(n / 64) * 64
CeilBlock(n) == ((n \div 64) + (IF n % 64 = 0 THEN 0 ELSE 1)) * 64
\* the sum of the padded lengths of the first k entries of es
RECURSIVE SumBlocks(_, _)
SumBlocks(es, k) == IF k = 0 THEN 0 ELSE SumBlocks(es, k - 1) + CeilBlock(es[k].length)
IsLiveEntry(e) == e.name # Zeros(32) /\ e.flag = 0

\* C7: defragment leaves the live entries, in their slot order, in the first
\* slots with name, length and created unchanged and start = 2112 + the
\* padded lengths of the entries before; the other slots all zero; and the
\* header with file_count = |keep|, deleted_files = 0, next_free_offset =
\* 2112 + the padded lengths of keep, free_entry_offset = 64 + |keep| * 64.
C7_DefragmentPostState ==
    [][(last'.op = "dfrgfs" /\ last'.status = "ok") =>
          LET keep == SelectSeq(entries, IsLiveEntry)
          IN  /\ \A i \in 1..Len(keep) :
                    entries'[i] = [keep[i] EXCEPT !.start = 2112 + SumBlocks(keep, i - 1)]
              /\ \A i \in (Len(keep) + 1)..32 : PackEntry(entries'[i]) = Zeros(64)
              /\ header'.file_count = Len(keep)
              /\ header'.deleted_files = 0
              /\ header'.next_free_offset = 2112 + SumBlocks(keep, Len(keep))
              /\ header'.free_entry_offset = 64 + Len(keep) * 64]_vars

\* a defragment has just dropped the deleted a.txt (5 bytes) in slot 0 and
\* kept b.txt and the 31-character name behind it
C7_Witness ==
    /\ last = Result("dfrgfs", <<>>, "ok", <<1, 5>>)
    /\ header.file_count = 2 /\ header.next_free_offset = 2112 + 256
    /\ entries[1].name = StoredName(B_TXT) /\ entries[1].start = 2112
    /\ entries[2].name = StoredName(N31) /\ entries[2].start = 2112 + 128
    /\ is_empty(entries[3])
    /\ Len(data) = 320 /\ data[257] = P65[65]

\* the bytes of the container file
RECURSIVE PackEntries(_)
PackEntries(es) == IF es = <<>> THEN <<>> ELSE PackEntry(Head(es)) \o PackEntries(Tail(es))
Image(h, es, d) == PackHeader(h) \o PackEntries(es) \o d

\* C8: defragment is idempotent on the whole container: right after a
\* defragment, a second defragment leaves every byte of the file, and its
\* size, as they are.
C8_DefragmentIdempotent ==
    (fs_exists /\ last.op = "dfrgfs" /\ last.status = "ok") =>
        LET again == dfrgfs_outcome(header, entries, data)
        IN  Image(again.header, again.entries, again.data) = Image(header, entries, data)

\* a defragment has just dropped two entries and kept the 31-character name:
\* the file is longer than next_free_offset
C8_Witness ==
    /\ fs_exists /\ last.op = "dfrgfs" /\ last.status = "ok" /\ last.out[1] = 2
    /\ header.file_count = 1 /\ entries[1].name = StoredName(N31)
    /\ FileSize > header.next_free_offset

\* the entry rmfs matches for that name is already flagged as deleted
TargetFlagged(n) ==
    LET i == compare_filenames(entries, encode_filename(n))
    IN  i # -1 /\ entries[i + 1].flag = 1

\* C9: a remove that targets an entry whose flag is already 1 fails or is a
\* no-op: the counters of the header are not changed a second time and the
\* container is unchanged.
C9_RemoveDeletedIsNoOp ==
    [][(last'.op = "rmfs" /\ TargetFlagged(last'.arg)) =>
          (header' = header /\ entries' = entries /\ data' = data)]_vars

\* C10: a successful remove(n) changes only the flag of the matched entry
\* (to 1) and the counters of the header (file_count - 1, deleted_files + 1);
\* the rest of that entry, every other entry, next_free_offset,
\* free_entry_offset, the data region and the file's size are unchanged.
C10_RemoveFrame ==
    [][(last'.op = "rmfs" /\ last'.status = "ok") =>
          LET i == compare_filenames(entries, StoredName(last'.arg)) + 1
          IN  /\ i \in Slots
              /\ entries' = [entries EXCEPT ![i].flag = 1]
              /\ header' = [header EXCEPT !.file_count = @ - 1, !.deleted_files = @ + 1]
              /\ data' = data
              /\ fs_exists' = fs_exists]_vars

\* rmfs a.txt has just flagged the live 5-byte a.txt; b.txt is still live
C10_Witness ==
    /\ last = Result("rmfs", A_TXT, "ok", <<>>)
    /\ entries[SlotOf(A_TXT)].flag = 1 /\ entries[SlotOf(A_TXT)].length = 5
    /\ IsLive(B_TXT)
    /\ header.file_count = 1 /\ header.deleted_files = 1

\* no slot of the table is empty
TableFull == \A i \in Slots : ~is_empty(entries[i])

\* C11: an add on a container in which no slot is empty fails: no entry is
\* written and the header is unchanged; when the name passes the checks
\* that come first (host file, length, duplicate), the add ends at the slot
\* computation (zvfs.py:418), which raises with free_position = None.
C11_AddOnFullTable ==
    [][(last'.op = "addfs" /\ fs_exists /\ TableFull) =>
          /\ last'.status # "ok"
          /\ entries' = entries
          /\ header' = header
          /\ (last'.status \notin {"no_host_file", "ValueError", "duplicate", "name_too_long"}
                => last'.status = "TypeError")]_vars

\* the 32 slots are taken (the fillers and the 5-byte a.txt) and the add of
\* the 70-byte b.txt has just failed for want of a slot, after its payload
\* and padding went into the file past next_free_offset
C11_Witness ==
    /\ TableFull
    /\ last = Result("addfs", B_TXT, "TypeError", <<>>)
    /\ header.file_count + header.deleted_files = 32
    /\ header.next_free_offset = DATA_START_OFFSET + 64
    /\ Len(data) = 64 + 128

\* an entry, live or deleted, holds the padded name of n
IsStored(n) == IsLive(n) \/ IsDeleted(n)

\* the same of a table es
StoredIn(es, n) == \E i \in Slots : es[i].name = StoredName(n)
LiveIn(es, n) == \E i \in Slots : es[i].name = StoredName(n) /\ es[i].flag = 0

\* C12: an add (with its host file present) of a name that a live or a
\* soft-deleted entry holds fails as a duplicate and writes nothing; a
\* defragment drops the deleted names from the table, and the add of such a
\* name right after it succeeds.
C12_DuplicateName ==
    [][/\ (last'.op = "addfs" /\ fs_exists /\ IsStored(last'.arg)
              /\ last'.status # "no_host_file")
          => (last'.status = "duplicate" /\ UNCHANGED container)
       /\ (last'.op = "dfrgfs" /\ last'.status = "ok")
          => \A n \in StoredNames : IsDeleted(n) => ~StoredIn(entries', n)
       /\ (last'.op = "addfs" /\ last.op = "dfrgfs" /\ last.status = "ok"
              /\ last'.arg \in StoredNames /\ ~IsStored(last'.arg)
              /\ last'.status # "no_host_file")
          => (last'.status = "ok" /\ LiveIn(entries', last'.arg))]_vars

\* the add of a.txt has just failed as a duplicate of the soft-deleted a.txt
C12_Witness ==
    /\ last = Result("addfs", A_TXT, "duplicate", <<>>)
    /\ IsDeleted(A_TXT)
    /\ header.deleted_files = 1

\* the number of bytes of the UTF-8 encoding of a string, from the ranges of
\* its code points
RECURSIVE ByteLength(_)
ByteLength(s) ==
    IF s = <<>> THEN 0
    ELSE (IF Head(s) < 128 THEN 1 ELSE IF Head(s) < 2048 THEN 2
          ELSE IF Head(s) < 65536 THEN 3 ELSE 4) + ByteLength(Tail(s))

\* how an add ends when the name is too long: ValueError of encode_filename
\* (more than 31 characters) or the failed assert on the encoded length
NameTooLong == {"ValueError", "name_too_long"}

\* C13: an add (with its host file present) passes the name-length check
\* exactly when the UTF-8 encoding of the name has at most 31 bytes; when
\* it does not pass, the container is unchanged; and every stored name has
\* exactly 32 bytes, the name followed by NUL bytes.
C13_NameLength ==
    [][(last'.op = "addfs" /\ fs_exists /\ last'.status # "no_host_file") =>
          /\ (last'.status \notin NameTooLong) <=> (ByteLength(last'.arg) <= 31)
          /\ (last'.status \in NameTooLong) => UNCHANGED container
          /\ \A i \in Slots :
                /\ Len(entries'[i].name) = 32
                /\ entries'[i].name[32] = 0
                /\ entries'[i].name =
                      PadZeros(UpToNul(entries'[i].name),
                               32 - Len(UpToNul(entries'[i].name)))]_vars

\* a name of 16 characters and 32 bytes has just been refused while the
\* names of exactly 31 bytes are stored
C13_Witness ==
    /\ last = Result("addfs", MB16, "name_too_long", <<>>)
    /\ IsLive(N31) /\ IsLive(MB15A)
    /\ entries[SlotOf(MB15A)].name = Utf8(MB15A) \o <<0>>

\* C14: remove(n) succeeds whenever a live entry holds the padded name of n,
\* whatever else is on the host, and fails with the container unchanged
\* whenever no entry, live or deleted, holds that name.
C14_RemoveByNameOnly ==
    [][(last'.op = "rmfs" /\ fs_exists) =>
          /\ IsLive(last'.arg) => last'.status = "ok"
          /\ ~IsStored(last'.arg) => (last'.status # "ok" /\ UNCHANGED container)]_vars

\* the 64 bytes of the header of a fresh container
FreshHeaderBytes ==
    <<90, 86, 70, 83, 68, 83, 75, 49>>        \* magic "ZVFSDSK1"
    \o <<1>> \o <<0>> \o <<0, 0>>             \* version 1, flags, reserved0
    \o <<0, 0>> \o <<32, 0>> \o <<64, 0>>     \* file_count 0, file_capacity 32, file_entry_size 64
    \o <<0, 0>>                               \* reserved1
    \o <<64, 0, 0, 0>> \o <<64, 8, 0, 0>>     \* file_table_offset 64, data_start_offset 2112
    \o <<64, 8, 0, 0>> \o <<64, 0, 0, 0>>     \* next_free_offset 2112, free_entry_offset 64
    \o <<0, 0>> \o [i \in 1..26 |-> 0]        \* deleted_files 0, reserved2

\* C15: a mkfs that creates the container, on a path with no file or over an
\* existing container after OVERWRITE, leaves the same image of exactly
\* 2112 bytes: the default header followed by zero bytes up to 2111; after
\* ABORT the existing file has the bytes it had.
C15_MkfsFreshImage ==
    [][/\ (last'.op = "mkfs" /\ last'.status = "ok") =>
             /\ fs_exists'
             /\ Image(header', entries', data') = FreshHeaderBytes \o [i \in 1..2048 |-> 0]
             /\ Len(Image(header', entries', data')) = 2112
             /\ header'.version = 1 /\ header'.file_count = 0
             /\ header'.file_capacity = 32 /\ header'.file_entry_size = 64
             /\ header'.file_table_offset = 64 /\ header'.data_start_offset = 2112
             /\ header'.next_free_offset = 2112 /\ header'.free_entry_offset = 64
             /\ header'.deleted_files = 0
       /\ (last'.op = "mkfs" /\ last'.status = "abort") =>
             /\ fs_exists' = fs_exists
             /\ Image(header', entries', data') = Image(header, entries, data)]_vars

\* ABORT has just been answered on a container that holds a.txt and b.txt
C15_Witness ==
    /\ last = Result("mkfs", <<>>, "abort", <<>>)
    /\ IsLive(A_TXT) /\ IsLive(B_TXT)
    /\ FileSize = 2112 + 64 + 128

\* C16: header.next_free_offset is a multiple of 64 in every reachable
\* state, and no operation other than defragment and mkfs decreases it.
C16_NextFreeOffsetMonotone ==
    /\ header.next_free_offset % 64 = 0
    /\ [][/\ header'.next_free_offset % 64 = 0
          /\ (last'.op \notin {"dfrgfs", "mkfs"})
                => header'.next_free_offset >= header.next_free_offset]_vars

\* a remove has just left next_free_offset where the adds of the 5-byte
\* a.txt and the 70-byte b.txt had put it
C16_Witness ==
    /\ last = Result("rmfs", A_TXT, "ok", <<>>)
    /\ IsLive(B_TXT)
    /\ header.next_free_offset = DATA_START_OFFSET + 64 + 128

\* C17: in every state reachable from mkfs the size of the container file is
\* at least 2112 and a multiple of 64 (after adds of empty payloads, after
\* failed adds, after defragment).
C17_FileSizeAligned ==
    fs_exists => (FileSize >= 2112 /\ FileSize % 64 = 0)

\* the add of the 5-byte a.txt has just failed on a full table, after its
\* payload and padding made the file longer than next_free_offset says
C17_Witness ==
    /\ last = Result("addfs", A_TXT, "TypeError", <<>>)
    /\ TableFull
    /\ header.next_free_offset = DATA_START_OFFSET + 128
    /\ FileSize = DATA_START_OFFSET + 128 + 64

\* the lowest-index empty slot of the table
LowestEmptySlot ==
    CHOOSE i \in Slots : is_empty(entries[i]) /\ \A j \in 1..(i - 1) : ~is_empty(entries[j])

\* C18: a successful add(n, p) writes, into the lowest-index empty slot, an
\* entry with the padded name of n, start = the previous next_free_offset
\* and length = len(p); p and then zero bytes up to the next multiple of 64
\* are in the file from start on; next_free_offset has advanced by
\* ceil(len(p) / 64) * 64 and file_count by 1.
C18_AddPlacement ==
    [][(last'.op = "addfs" /\ last'.status = "ok") =>
          LET n == last'.arg
              p == added'[n]
              start == header.next_free_offset
              s == start - DATA_START_OFFSET
              i == LowestEmptySlot
          IN  /\ \E k \in Slots : is_empty(entries[k])
              /\ \A k \in Slots \ {i} : entries'[k] = entries[k]
              /\ entries'[i].name = StoredName(n)
              /\ entries'[i].start = start
              /\ entries'[i].length = Len(p)
              /\ entries'[i].flag = 0 /\ entries'[i].type = 0
              /\ SubSeq(data', s + 1, s + Len(p)) = p
              /\ Len(data') >= s + CeilBlock(Len(p))
              /\ \A b \in (s + Len(p) + 1)..(s + CeilBlock(Len(p))) : data'[b] = 0
              /\ header' = [header EXCEPT !.next_free_offset = @ + CeilBlock(Len(p)),
                                          !.file_count = @ + 1]]_vars

\* the 5-byte b.txt has just been added behind the 64-byte a.txt, which
\* took one block exactly
C18_Witness ==
    /\ last = Result("addfs", B_TXT, "ok", <<>>)
    /\ added[A_TXT] = P64
    /\ entries[1].length = 64 /\ entries[1].start = DATA_START_OFFSET
    /\ entries[2].name = StoredName(B_TXT)
    /\ entries[2].start = DATA_START_OFFSET + 64
    /\ header.next_free_offset = DATA_START_OFFSET + 128

\* C19: extract and cat match soft-deleted entries: from a successful
\* remove(n) until the next defragment, whatever is added and removed under
\* other names, the lookup of n succeeds and reads exactly the payload that
\* was added under n; so does a getfs of n, and a catfs of n finds the entry
\* and, when the payload decodes, prints it.
C19_DeletedStillReadable ==
    \A n \in StoredNames :
        (fs_exists /\ IsDeleted(n) /\ added[n] # NoFile) =>
            /\ Extract(n) = [status |-> "ok", out |-> added[n]]
            /\ (last.op = "getfs" /\ last.arg = n)
                  => (last.status = "ok" /\ last.out = added[n])
            /\ (last.op = "catfs" /\ last.arg = n)
                  => /\ last.status \in {"ok", "UnicodeDecodeError"}
                     /\ last.status = "ok" => last.out = added[n]

\* getfs has just extracted the 70 bytes of the soft-deleted b.txt, which
\* lies behind a.txt in the data region
C19_Witness ==
    /\ last = Result("getfs", B_TXT, "ok", P70)
    /\ IsDeleted(B_TXT) /\ IsLive(A_TXT)
    /\ entries[SlotOf(B_TXT)].start = DATA_START_OFFSET + 64
    /\ header.deleted_files = 1

\* the header of the file does not have the magic and the version of the format
Malformed == header.magic # MAGIC \/ header.version # 1

\* C20: the operations that read the header (stat, add, remove, defragment)
\* reject a container whose magic is not ZVFSDSK1 or whose version is not 1:
\* they fail and leave the file as it is.
C20_MalformedRejected ==
    [][(last'.op \in {"gifs", "addfs", "rmfs", "dfrgfs"} /\ fs_exists /\ Malformed) =>
          (last'.status # "ok" /\ UNCHANGED container)]_vars

\* the place of a write in the order payload, entry, header
Rank(kind) ==
    CASE kind \in {"payload", "padding"} -> 1
      [] kind = "entry" -> 2
      [] kind = "header" -> 3

\* C21: the writes of an add, a remove or a defragment come in the order
\* payload bytes, then the entry (or the entry table) that refers to them,
\* then the header; when the operation succeeds the header is written once
\* and last; the payload an add writes is where and as long as the entry it
\* writes next says, and that entry goes to the slot the name is found in.
C21_WriteOrder ==
    (last.op \in {"addfs", "rmfs", "dfrgfs"}) =>
        /\ \A i, j \in 1..Len(writes) :
              i < j => Rank(writes[i].kind) <= Rank(writes[j].kind)
        /\ last.status = "ok" =>
              /\ writes # <<>>
              /\ writes[Len(writes)] = W("header", 0, 64)
              /\ \A i \in 1..(Len(writes) - 1) : writes[i].kind # "header"
        /\ (last.op = "addfs" /\ last.status = "ok") =>
              LET slot == SlotOf(last.arg)
              IN  /\ Len(writes) = 4
                  /\ writes[1] = W("payload", entries[slot].start, entries[slot].length)
                  /\ writes[2].kind = "padding"
                  /\ writes[2].off + writes[2].len = header.next_free_offset
                  /\ writes[3] = W("entry", 64 + 64 * (slot - 1), 64)

\* a defragment has just moved the 70-byte b.txt to the front (payload, then
\* 58 bytes of padding), rewritten the 32 entries and then the header
C21_Witness ==
    /\ last = Result("dfrgfs", <<>>, "ok", <<1, 5>>)
    /\ Len(writes) = 2 + 32 + 1
    /\ writes[1] = W("payload", DATA_START_OFFSET, 70)
    /\ writes[2] = W("padding", DATA_START_OFFSET + 70, 58)
    /\ writes[3] = W("entry", 64, 64)
    /\ writes[35] = W("header", 0, 64)

\* C22: after adds to a fresh container, in whatever order they came, the
\* mapping from names to bytes that extract shows is the set of files
\* added: each added name yields its payload, every other name is not found.
C22_AddOrderInvariance ==
    fs_exists =>
        \A n \in PermNames :
            Extract(n) = IF added[n] # NoFile
                         THEN [status |-> "ok", out |-> added[n]]
                         ELSE [status |-> "not_found", out |-> <<>>]

\* the four files were added with b.txt first and a.txt last: slots and
\* starts are not those of the order a.txt, b.txt, ..., the mapping is
C22_Witness ==
    /\ fs_exists /\ header.file_count = 4
    /\ entries[1].name = StoredName(B_TXT) /\ entries[1].start = DATA_START_OFFSET
    /\ entries[4].name = StoredName(A_TXT)
    /\ entries[4].start = DATA_START_OFFSET + 128 + 128 + 64
    /\ Extract(A_TXT).out = HELLO /\ Extract(B_TXT).out = P70
    /\ Extract(N31).out = P65 /\ Extract(MB15A).out = HELLO

\* C23: in every state reached from mkfs by the commands, the header fields
\* magic, version, file_capacity, file_entry_size, file_table_offset and
\* data_start_offset hold ZVFSDSK1, 1, 32, 64, 64 and 2112.
C23_FixedHeaderFields ==
    fs_exists =>
        /\ header.magic = <<90, 86, 70, 83, 68, 83, 75, 49>>
        /\ header.version = 1
        /\ header.file_capacity = 32
        /\ header.file_entry_size = 64
        /\ header.file_table_offset = 64
        /\ header.data_start_offset = 2112

\* after an add, a remove and a defragment that dropped one entry and kept
\* one, the six fields are those of mkfs
C23_Witness ==
    /\ fs_exists /\ last.op = "dfrgfs" /\ last.status = "ok" /\ last.out[1] = 1
    /\ header.file_count = 1
    /\ SubSeq(PackHeader(header), 1, 8) = MAGIC
    /\ header.file_capacity = MAX_FILES /\ header.data_start_offset = DATA_START_OFFSET

\* C24: getfs, catfs, lsfs and gifs, succeeding or failing, leave every byte
\* of the container file and its size as they were and write nothing.
\* (Equal fields pack to equal bytes, so the bytes are compared only when a
\* field differs.)
C24_ReadOnly ==
    [][(last'.op \in {"getfs", "catfs", "lsfs", "gifs"}) =>
          /\ fs_exists' = fs_exists
          /\ \/ <<header', entries', data'>> = <<header, entries, data>>
             \/ Image(header', entries', data') = Image(header, entries, data)
          /\ DATA_START_OFFSET + Len(data') = DATA_START_OFFSET + Len(data)
          /\ writes' = <<>>]_vars

\* getfs a.txt has just returned the 5 bytes of a live a.txt
C24_Witness ==
    /\ last = Result("getfs", A_TXT, "ok", HELLO)
    /\ IsLive(A_TXT) /\ header.file_count >= 1
    /\ writes = <<>>

\* the byte ranges [s1, s1 + n1) and [s2, s2 + n2) have a byte in common
RangesMeet(s1, n1, s2, n2) == n1 > 0 /\ n2 > 0 /\ s1 < s2 + n2 /\ s2 < s1 + n1

\* C25: in every state reached from mkfs, the loop of defragment over the
\* keep entries, taken in order, has its write cursor at or before the
\* start of the entry it is about to move, and the block it writes for that
\* entry (payload and padding) holds no payload byte of a keep entry that
\* comes later in the order.
C25_CursorNeverAhead ==
    fs_exists =>
        LET files_to_keep == SelectSeq(entries, Kept)
        IN  \A k \in 1..Len(files_to_keep) :
                LET cursor == Compact(files_to_keep, data, k - 1).cursor
                    e == files_to_keep[k]
                IN  /\ cursor <= e.start
                    /\ \A j \in (k + 1)..Len(files_to_keep) :
                           ~RangesMeet(cursor, Padded(e.length),
                                       files_to_keep[j].start, files_to_keep[j].length)

\* a deleted 5-byte a.txt lies before the live b.txt (70 bytes) and the live
\* 65-byte file: the loop moves b.txt from 2176 to 2112, over its own old
\* bytes, and then the other file from 2304 to 2240
C25_Witness ==
    /\ fs_exists /\ IsDeleted(A_TXT) /\ IsLive(B_TXT) /\ IsLive(N31)
    /\ LET files_to_keep == SelectSeq(entries, Kept)
       IN  /\ Len(files_to_keep) = 2
           /\ files_to_keep[1].start = DATA_START_OFFSET + 64
           /\ files_to_keep[2].start = DATA_START_OFFSET + 64 + 128
           /\ Compact(files_to_keep, data, 0).cursor = DATA_START_OFFSET
           /\ Compact(files_to_keep, data, 1).cursor = DATA_START_OFFSET + 128
           /\ Compact(files_to_keep, data, 2).keep[2].start = DATA_START_OFFSET + 128

\* the byte offset of the slot after the leading non-empty slots of es: the
\* first empty slot if the table has one
FirstEmptyOffset(es) ==
    64 + 64 * Cardinality({i \in Slots : \A j \in 1..i : ~is_empty(es[j])})

\* C26 as stated: in every reachable state in which an empty slot exists,
\* header.free_entry_offset is the byte offset of the first empty slot,
\* 64 + 64 * (lowest index of an all-zero-name slot).
C26_FreeEntryOffsetIsFirstEmpty ==
    (fs_exists /\ \E i \in Slots : is_empty(entries[i])) =>
        header.free_entry_offset = 64 + 64 * (LowestEmptySlot - 1)

\* C26, amended: header.free_entry_offset is the byte offset of the first
\* empty slot right after a successful mkfs or defragment; add and remove
\* leave the field as it was, so that in every reachable state it is the
\* offset of a slot at or before the first empty one.
C26_FreeEntryCursor ==
    [][/\ (last'.op \in {"mkfs", "dfrgfs"} /\ last'.status = "ok")
             => header'.free_entry_offset = FirstEmptyOffset(entries')
       /\ (last'.op \in {"addfs", "rmfs"})
             => header'.free_entry_offset = header.free_entry_offset
       /\ fs_exists'
             => /\ header'.free_entry_offset <= FirstEmptyOffset(entries')
                /\ header'.free_entry_offset >= 64
                /\ header'.free_entry_offset % 64 = 0]_vars

\* after mkfs and two adds the field is still 64, the first empty slot is
\* the third, at offset 192
C26_Witness ==
    /\ last.op = "addfs" /\ last.status = "ok"
    /\ ~is_empty(entries[1]) /\ ~is_empty(entries[2]) /\ is_empty(entries[3])
    /\ FirstEmptyOffset(entries) = 192
    /\ header.free_entry_offset = 64

\* C27: an add that fails for a name that is too long, for a name already
\* in the table or for want of an empty slot leaves every byte of the
\* container file and its size as they were: no byte of payload, padding,
\* entry or header is written before the failure.
C27_FailingAddWritesNothing ==
    [][(last'.op = "addfs" /\ last'.status \in {"name_too_long", "duplicate", "TypeError"}) =>
          /\ \/ <<header', entries', data'>> = <<header, entries, data>>
             \/ Image(header', entries', data') = Image(header, entries, data)
          /\ DATA_START_OFFSET + Len(data') = DATA_START_OFFSET + Len(data)
          /\ \A i \in 1..Len(writes') : writes'[i].len = 0]_vars

\* C28: in every reachable state no empty slot precedes a non-empty one, and
\* the starts of the non-empty entries are non-decreasing in slot order.
C28_TableOrderIsDiskOrder ==
    fs_exists =>
        \A j \in Slots :
            ~is_empty(entries[j]) =>
                \A i \in 1..(j - 1) :
                    /\ ~is_empty(entries[i])
                    /\ entries[i].start <= entries[j].start

\* not right after a defragment: three entries in the first three slots, the
\* second one deleted by the remove just done, at increasing starts
C28_Witness ==
    /\ last.op = "rmfs" /\ last.status = "ok"
    /\ NonEmptySlots = {1, 2, 3} /\ DeletedSlots = {2}
    /\ entries[1].start < entries[2].start /\ entries[2].start < entries[3].start

\* C29: in every reachable state the 32-byte names of the non-empty entries,
\* live and deleted together, are pairwise distinct: a name matches at most
\* one entry.
C29_NamesDistinct ==
    fs_exists =>
        /\ \A i, j \in NonEmptySlots : entries[i].name = entries[j].name => i = j
        /\ \A n \in Names :
               Cardinality({i \in Slots : entries[i].name = encode_filename(n)}) <= 1

\* a deleted a.txt and a live b.txt share the table, and an add of a.txt
\* has just been refused
C29_Witness ==
    /\ last.op = "addfs" /\ last.arg = A_TXT /\ last.status = "duplicate"
    /\ IsDeleted(A_TXT) /\ IsLive(B_TXT)
    /\ Cardinality(NonEmptySlots) = 2

====
